---------------------------- MODULE Spec2Model ----------------------------
(***************************************************************************)
(* Model of the standardized-index engine of Climate_Indices: the function *)
(* calculate_spei_custom of src/SPEI_cdb.py and the module driver that     *)
(* calls it.  One call is a small state machine: the rolling sum           *)
(* (line 42), one step per iteration of the for-loop (lines 46-53), and    *)
(* the return (line 55).                                                   *)
(*                                                                         *)
(* Floats are records: Num(v) is the number v, NaN is pandas' missing      *)
(* value.  The three scipy calls of lines 51-53 are kept as symbolic       *)
(* terms: the value appended at a position records the argument and the    *)
(* sample it was fitted to, so two index values are equal exactly when     *)
(* they were computed from the same rolling sum and the same sample.       *)
(*                                                                         *)
(* The other scripts are state machines of their own:                     *)
(* classify_enso_inclusive of src/ENSO_phase.py, aggregate_data of         *)
(* src/Monthly_Annual_aggregation.py, apply_quality_control and            *)
(* resolve_duplicate_dates of src/Consolidate_stationdata.py, and the      *)
(* probabilities of src/ENSO_SPEI_analysis_3m_multiplot.py.  Each          *)
(* specification runs one script and leaves the others as constructed.     *)
(***************************************************************************)
EXTENDS Integers, Sequences, FiniteSets

\* Bounds of the model.
MaxLen == 4
MaxT == 3

\* Monthly water-balance values the inputs are drawn from (mm), besides NaN.
Vals == {-1, 2}

NaN == [kind |-> "nan"]
Num(v) == [kind |-> "num", v |-> v]
IsNaN(x) == x.kind = "nan"

\* The water-balance cells: a number or a missing month.
Cells == {Num(v) : v \in Vals} \cup {NaN}

\* Every timescale a caller may pass, the non-positive ones included.
Timescales == (0 - 1)..MaxT

RECURSIVE SeqsUpTo(_, _)
SeqsUpTo(S, n) ==
    IF n = 0 THEN {<<>>}
    ELSE LET shorter == SeqsUpTo(S, n - 1)
         IN shorter \cup {Append(s, x) : s \in {t \in shorter : Len(t) = n - 1}, x \in S}

\* monthly_data after groupby(...).reset_index(): a RangeIndex 0..N-1.
RangeIndex(n) == [p \in 1..n |-> p - 1]

DataFrame(wb) == [WaterBalance |-> wb, index |-> RangeIndex(Len(wb))]

Inputs == {DataFrame(wb) : wb \in SeqsUpTo(Cells, MaxLen)}

-----------------------------------------------------------------------------
(* pandas: Series.rolling(window, min_periods).sum()                       *)

\* The constructor's validation of window and min_periods.
rolling_validate(window, min_periods) ==
    IF window < 0 \/ min_periods < 0 \/ min_periods > window
    THEN "ValueError" ELSE "ok"

\* One observation enters the window: NaN is not counted and not added.
add_sum(val, acc) ==
    IF IsNaN(val) THEN acc
    ELSE [nobs |-> acc.nobs + 1, sum_x |-> acc.sum_x + val.v]

\* One observation leaves the window.
remove_sum(val, acc) ==
    IF IsNaN(val) THEN acc
    ELSE [nobs |-> acc.nobs - 1, sum_x |-> acc.sum_x - val.v]

\* The result of one window: absent below min_periods observations.
calc_sum(minp, acc) ==
    IF acc.nobs = 0 /\ minp = 0 THEN Num(0)
    ELSE IF acc.nobs >= minp THEN Num(acc.sum_x)
    ELSE NaN

\* The running (nobs, sum_x) after the window ending at 1-based position p.
RECURSIVE roll_sum_acc(_, _, _)
roll_sum_acc(values, window, p) ==
    IF p = 0 \/ window = 0 THEN [nobs |-> 0, sum_x |-> 0]
    ELSE LET prev == roll_sum_acc(values, window, p - 1)
             left == IF p - window >= 1
                     THEN remove_sum(values[p - window], prev)
                     ELSE prev
         IN add_sum(values[p], left)

\* The sum over a fixed window, one output per input position.
roll_sum(values, window, min_periods) ==
    [p \in 1..Len(values) |-> calc_sum(min_periods, roll_sum_acc(values, window, p))]

\* Variant: fillna(0), a zero standing for every missing rolling sum.
fillna_zero(s) == [q \in 1..Len(s) |-> IF IsNaN(s[q]) THEN Num(0) ELSE s[q]]

\* Line 51: .dropna(), the defined values in their order.
dropna(s) == SelectSeq(s, LAMBDA x : ~IsNaN(x))

-----------------------------------------------------------------------------
(* scipy.stats: pearson3.fit, pearson3.cdf, norm.ppf                       *)

VARIABLE
    numerics          \* how the library's floating point behaves: "exact" or
                      \* "saturating"; fixed for the whole run

Numerics == {"exact", "saturating"}

\* The maximum-likelihood fit.  An empty sample has no minimum or maximum
\* and the fit raises ValueError; on a non-empty sample of finite values the
\* optimizer returns parameters, a function of the sample and nothing else.
pearson3_fit(sample) ==
    IF sample = <<>> THEN [raised |-> "ValueError"]
    ELSE [raised |-> "none", params |-> [mle |-> sample]]

\* Whether the double that pearson3.cdf returns is exactly 0.0, exactly 1.0
\* or strictly between.  A skewed Pearson III has a bounded tail; under
\* "saturating" numerics the fitted bound reaches the extreme of the sample,
\* so the smallest value gets probability 0.0 or the largest 1.0.
cdf_class(v, sample) ==
    IF numerics = "saturating"
       /\ (\A q \in 1..Len(sample) : v <= sample[q].v)
       /\ (\E q \in 1..Len(sample) : v < sample[q].v)
    THEN "zero"
    ELSE IF numerics = "saturating"
            /\ (\A q \in 1..Len(sample) : v >= sample[q].v)
            /\ (\E q \in 1..Len(sample) : v > sample[q].v)
    THEN "one"
    ELSE "interior"

\* The cumulative probability of x: NaN for a NaN argument, otherwise a
\* probability (not NaN) determined by x and the fitted parameters.
pearson3_cdf(x, params) ==
    IF IsNaN(x) THEN NaN
    ELSE [kind |-> "prob", x |-> x.v, params |-> params,
          at |-> cdf_class(x.v, params.mle)]

\* The standard-normal quantile of p: NaN for NaN, -inf for 0.0, +inf for
\* 1.0, a finite number for a probability strictly between.
norm_ppf(p) ==
    IF IsNaN(p) THEN NaN
    ELSE [kind |-> "z", p |-> p,
          is |-> IF p.at = "zero" THEN "-inf"
                 ELSE IF p.at = "one" THEN "+inf"
                 ELSE "finite"]

-----------------------------------------------------------------------------
(* calculate_spei_custom                                                   *)

\* Variant: expanding(min_periods).sum(), a window that never drops a month.
expanding_sum(values, window, min_periods) ==
    roll_sum(values, Len(values), min_periods)

\* Line 42: .rolling(window, min_periods=...).sum() of the WaterBalance column.
rolling_sum(values, window, min_periods) ==
    roll_sum(values, window, min_periods)

\* Variant: min_periods=1, a sum over whatever part of the window is there.
min_periods_one(T) == 1

\* Line 42: min_periods=timescale.
min_periods_arg(T) == T

\* Variant: range(len(rolling_balance) - 1), the last month dropped.
range_len_short(rb) == Len(rb) - 1

\* Line 46: range(len(rolling_balance)), the number of iterations.
range_len(rb) == Len(rb)

\* Variants: the comparison of line 47 off by one, either way.
not_enough_late(k, T) == k < T
not_enough_early(k, T) == k < T - 2

\* Line 47: position k (0-based) comes before the first full window.
not_enough(k, T) == k < T - 1

\* Variants: the whole of rolling_balance, months after k included; and
\* rolling_balance[: k], the current month left out.
rolling_window_all(rb, k) == rb
rolling_window_excl(rb, k) == SubSeq(rb, 1, k)

\* Line 50: rolling_balance[: k + 1], the data up to position k (0-based).
rolling_window(rb, k) == SubSeq(rb, 1, k + 1)

\* Variant: the last defined rolling sum up to k instead of the one at k.
last_valid_value(rb, k) ==
    LET s == dropna(SubSeq(rb, 1, k + 1))
    IN IF s = <<>> THEN NaN ELSE s[Len(s)]

\* Line 52: rolling_balance[k], the value that is standardized.
current_value(rb, k) == rb[k + 1]

\* Lines 47-53, one iteration of the loop at position k: the value appended,
\* the sample handed to the fit (if any), and the exception raised (if any).
iteration(rb, T, k) ==
    IF not_enough(k, T)
    THEN [raised |-> "none", fitted |-> FALSE, value |-> NaN]
    ELSE LET sample == dropna(rolling_window(rb, k))
             fit == pearson3_fit(sample)
         IN IF fit.raised = "none"
            THEN LET standardized == pearson3_cdf(current_value(rb, k), fit.params)
                 IN [raised |-> "none", fitted |-> TRUE, sample |-> sample,
                     value |-> norm_ppf(standardized)]
            ELSE [raised |-> fit.raised, fitted |-> TRUE, sample |-> sample]

\* Lines 45-53: the list after the first n iterations, or where it stopped.
RECURSIVE spei_loop(_, _, _)
spei_loop(rb, T, n) ==
    IF n = 0 THEN [raised |-> "none", values |-> <<>>]
    ELSE LET before == spei_loop(rb, T, n - 1)
         IN IF before.raised # "none" THEN before
            ELSE LET it == iteration(rb, T, n - 1)
                 IN IF it.raised = "none"
                    THEN [raised |-> "none", values |-> Append(before.values, it.value)]
                    ELSE [raised |-> it.raised, values |-> before.values]

\* Lines 30-55 as a function of its arguments: the exception that ends the
\* call ("none" when it returns) and the values appended up to then.
calculate_spei_custom(d, T) ==
    IF rolling_validate(T, min_periods_arg(T)) # "ok"
    THEN [raised |-> rolling_validate(T, min_periods_arg(T)), values |-> <<>>]
    ELSE LET rb == rolling_sum(d.WaterBalance, T, min_periods_arg(T))
         IN spei_loop(rb, T, range_len(rb))

VARIABLES
    data,             \* monthly_data: the table passed to every call
    columns,          \* monthly_data['SPEI_T']: the series assigned so far, by T
    pc,               \* "idle", "rolling", "loop", "done", "raised"
    timescale,        \* the timescale argument of the call in progress
    rolling_balance,  \* line 42
    spei_values,      \* line 45: the list the loop appends to
    i,                \* the loop variable of line 46
    fit_calls,        \* the samples handed to pearson3.fit by this call, in order
    result,           \* the returned Series, or None
    exception         \* the exception that ended the call, or "none"

\* src/ENSO_phase.py, classify_enso_inclusive: a script of its own.
VARIABLES
    oni_series,       \* the ONI anomalies passed in, in hundredths of a degree
    rounded,          \* line 21: oni_series.round(1), in tenths; <<>> before
    classification,   \* line 22: the list of labels
    win,              \* the loop variable i of line 23
    epc               \* "off", "start", "scan", "done"

enso == <<oni_series, rounded, classification, win, epc>>

\* classify_enso_inclusive is not running.
NoClassification ==
    /\ oni_series = <<>>
    /\ rounded = <<>>
    /\ classification = <<>>
    /\ win = 0
    /\ epc = "off"

\* src/Monthly_Annual_aggregation.py, aggregate_data: a script of its own.
VARIABLES
    table,            \* line 107: the daily rows read from the csv, one variable
    threshold,        \* the threshold argument, in percent
    annual_season,    \* "calendar" or "water"
    variable,         \* the column followed
    monthly_data,     \* line 162: the aggregate by YearMonth
    annual_data,      \* line 167: the aggregate by year or water year
    apc               \* "off", "start", "monthly", "annual", "qc", "done", "raised"

agg == <<table, threshold, annual_season, variable, monthly_data, annual_data, apc>>

\* An aggregated table without rows.
NoRows == [name \in {} |-> NaN]

\* aggregate_data is not running.
NoAggregation ==
    /\ table = <<>>
    /\ threshold = 0
    /\ annual_season = "calendar"
    /\ variable = "stn_Pr"
    /\ monthly_data = NoRows
    /\ annual_data = NoRows
    /\ apc = "off"

\* src/Consolidate_stationdata.py, apply_quality_control.
VARIABLES
    row,              \* one row of df: a cell for each of the eight columns
    qpc               \* "off", "thresholds", "frost", "tmax_tmin", "rh", "eto",
                      \* "return", "done", "raised"

\* src/Consolidate_stationdata.py, resolve_duplicate_dates.
VARIABLES
    df,               \* the rows passed in
    resolved_rows,    \* line 178: the list of rows kept so far
    returned,         \* line 188: the DataFrame returned, or None
    dpc               \* "off", "groups", "done"

\* src/ENSO_SPEI_analysis_3m_multiplot.py, lines 133-149.
VARIABLES
    results,          \* line 116: the events compiled by the loop
    results_df,       \* lines 134-135: the events with their Rainfall_Category
    grouped,          \* lines 138-143: the counts, reindexed
    probabilities,    \* lines 145-146
    anpc              \* "off", "start", "categorised", "grouped", "done", "raised"

others == <<row, qpc, df, resolved_rows, returned, dpc,
            results, results_df, grouped, probabilities, anpc>>

\* apply_quality_control is not running.
NoQualityControl ==
    /\ row = <<>>
    /\ qpc = "off"

\* resolve_duplicate_dates is not running.
NoResolve ==
    /\ df = <<>>
    /\ resolved_rows = <<>>
    /\ returned = [kind |-> "None"]
    /\ dpc = "off"

\* The analysis script is not running.
NoAnalysis ==
    /\ results = <<>>
    /\ results_df = <<>>
    /\ grouped = <<>>
    /\ probabilities = <<>>
    /\ anpc = "off"

\* What no step of calculate_spei_custom or of its driver touches.
frame == <<numerics, enso, agg, others>>

vars == <<data, columns, pc, timescale, rolling_balance, spei_values, i,
          fit_calls, result, exception, frame>>

None == [kind |-> "None"]

\* No column assigned yet: the function with the empty domain.
NoColumns == [T \in {} |-> None]

InitCall ==
    /\ columns = NoColumns
    /\ pc = "idle"
    /\ timescale = 0
    /\ rolling_balance = <<>>
    /\ spei_values = <<>>
    /\ i = 0
    /\ fit_calls = <<>>
    /\ result = None
    /\ exception = "none"
    /\ NoClassification
    /\ NoAggregation
    /\ NoQualityControl
    /\ NoResolve
    /\ NoAnalysis

Init ==
    /\ data \in Inputs
    /\ numerics \in Numerics
    /\ InitCall

\* Variant: the list of line 45 created once and shared by all calls.
Call_shared_list(T) ==
    /\ pc = "idle"
    /\ pc' = "rolling"
    /\ timescale' = T
    /\ rolling_balance' = <<>>
    /\ i' = 0
    /\ fit_calls' = <<>>
    /\ result' = None
    /\ UNCHANGED <<data, columns, exception, spei_values, frame>>

\* The caller enters calculate_spei_custom(data, T).
Call(T) ==
    /\ pc = "idle"
    /\ pc' = "rolling"
    /\ timescale' = T
    /\ rolling_balance' = <<>>
    /\ spei_values' = <<>>
    /\ i' = 0
    /\ fit_calls' = <<>>
    /\ result' = None
    /\ UNCHANGED <<data, columns, exception, frame>>

\* Variant: the rolling sum written back into data['WaterBalance'].
Rolling_in_place ==
    /\ pc = "rolling"
    /\ rolling_validate(timescale, min_periods_arg(timescale)) = "ok"
    /\ rolling_balance' = rolling_sum(data.WaterBalance, timescale,
                                       min_periods_arg(timescale))
    /\ data' = [data EXCEPT !.WaterBalance = rolling_balance']
    /\ pc' = "loop"
    /\ UNCHANGED <<columns, timescale, spei_values, i, fit_calls, result,
                   exception, frame>>

\* Lines 42-45: the rolling sum, then the empty list; a rejected window raises.
Rolling ==
    /\ pc = "rolling"
    /\ IF rolling_validate(timescale, min_periods_arg(timescale)) = "ok"
       THEN /\ rolling_balance' = rolling_sum(data.WaterBalance, timescale,
                                               min_periods_arg(timescale))
            /\ pc' = "loop"
            /\ UNCHANGED exception
       ELSE /\ exception' = rolling_validate(timescale, min_periods_arg(timescale))
            /\ pc' = "raised"
            /\ UNCHANGED rolling_balance
    /\ UNCHANGED <<data, columns, timescale, spei_values, i, fit_calls, result, frame>>

\* Lines 47-48: a position before the first full window gets NaN.
LoopSkip ==
    /\ pc = "loop"
    /\ i < range_len(rolling_balance)
    /\ ~iteration(rolling_balance, timescale, i).fitted
    /\ spei_values' = Append(spei_values, iteration(rolling_balance, timescale, i).value)
    /\ i' = i + 1
    /\ UNCHANGED <<data, columns, pc, timescale, rolling_balance, fit_calls,
                   result, exception, frame>>

\* Lines 50-53: fit to the rolling sums so far, standardize the current one.
\* Nothing catches an exception of the fit: it ends the call.
LoopFit ==
    /\ pc = "loop"
    /\ i < range_len(rolling_balance)
    /\ LET it == iteration(rolling_balance, timescale, i)
       IN /\ it.fitted
          /\ fit_calls' = Append(fit_calls, it.sample)
          /\ IF it.raised = "none"
             THEN /\ spei_values' = Append(spei_values, it.value)
                  /\ i' = i + 1
                  /\ UNCHANGED <<pc, exception>>
             ELSE /\ exception' = it.raised
                  /\ pc' = "raised"
                  /\ UNCHANGED <<spei_values, i>>
    /\ UNCHANGED <<data, columns, timescale, rolling_balance, result, frame>>

\* Line 55: the loop is over; the list is returned under the table's index.
Return ==
    /\ pc = "loop"
    /\ i = range_len(rolling_balance)
    /\ result' = [values |-> spei_values, index |-> data.index]
    /\ pc' = "done"
    /\ UNCHANGED <<data, columns, timescale, rolling_balance, spei_values, i,
                   fit_calls, exception, frame>>

\* Lines 135-137: monthly_data['SPEI_T'] = the returned series.
Assign ==
    /\ pc = "done"
    /\ columns' = [T \in DOMAIN columns \cup {timescale} |->
                      IF T = timescale THEN result ELSE columns[T]]
    /\ pc' = "idle"
    /\ UNCHANGED <<data, timescale, rolling_balance, spei_values, i, fit_calls,
                   result, exception, frame>>

Next ==
    \/ \E T \in Timescales : Call(T)
    \/ Rolling
    \/ LoopSkip
    \/ LoopFit
    \/ Return
    \/ Assign

Spec == Init /\ [][Next]_vars

-----------------------------------------------------------------------------
(* The module driver, lines 128-137                                        *)

\* Length bound of the driver's monthly table.
MaxMonths == 13

\* Lines 135-137: the three timescales, in the order the driver runs them.
DriverTimescales == <<3, 6, 12>>

\* Lines 130-132: groupby(...).sum() gives every month a total, so the
\* driver's WaterBalance has no NaN.  Months alternate wet and dry.
Alternating(n, phase) ==
    [p \in 1..n |-> IF (p + phase) % 2 = 0 THEN Num(2) ELSE Num(0 - 1)]

DriverInputs == {DataFrame(Alternating(n, phase)) : n \in 0..MaxMonths, phase \in 0..1}

InitDriver ==
    /\ data \in DriverInputs
    /\ numerics \in Numerics
    /\ InitCall

\* Lines 135-137: the next of the three calls.
DriverCall ==
    \E n \in 1..Len(DriverTimescales) :
        /\ Cardinality(DOMAIN columns) = n - 1
        /\ Call(DriverTimescales[n])

NextDriver ==
    \/ DriverCall
    \/ Rolling
    \/ LoopSkip
    \/ LoopFit
    \/ Return
    \/ Assign

SpecDriver == InitDriver /\ [][NextDriver]_vars

\* The run is interrupted from outside while a call is in progress (a
\* KeyboardInterrupt, a deadline): like every exception of lines 135-137 it
\* is not caught and ends the script.
Cancel ==
    /\ pc \in {"rolling", "loop"}
    /\ pc' = "raised"
    /\ exception' = "KeyboardInterrupt"
    /\ UNCHANGED <<data, columns, timescale, rolling_balance, spei_values, i,
                   fit_calls, result, frame>>

NextCancel ==
    \/ DriverCall
    \/ Rolling
    \/ LoopSkip
    \/ LoopFit
    \/ Return
    \/ Assign
    \/ Cancel

SpecCancel == InitDriver /\ [][NextCancel]_vars

-----------------------------------------------------------------------------
(* Callers that pass a table with its period column                        *)

\* Row bound of the tables with a period column.
MaxRows == 2

\* Line 131: the YearMonth column, here the month numbers 1..MaxRows in any
\* order and with repetitions; calculate_spei_custom never reads it.
PeriodTable(wb, ym) ==
    [WaterBalance |-> wb, index |-> RangeIndex(Len(wb)), YearMonth |-> ym]

PeriodInputs ==
    {PeriodTable(t[1], t[2]) :
        t \in {u \in SeqsUpTo(Cells, MaxRows) \X SeqsUpTo(1..MaxRows, MaxRows) :
                  Len(u[1]) = Len(u[2])}}

InitPeriods ==
    /\ data \in PeriodInputs
    /\ numerics \in Numerics
    /\ InitCall

SpecPeriods == InitPeriods /\ [][Next]_vars

-----------------------------------------------------------------------------
(* src/ENSO_phase.py: classify_enso_inclusive                              *)

MaxSeasons == 7

\* ONI anomalies in hundredths: -0.46, 0.45 and 0.46 round to -0.5, 0.4, 0.5.
OniVals == {0 - 46, 45, 46}
OniInputs == SeqsUpTo(OniVals, MaxSeasons)

\* Line 21: Series.round(1) is numpy's rint(x * 10) / 10, halves to even.
\* From hundredths to tenths.
round1(h) ==
    LET q == h \div 10
        r == h % 10
    IN IF r < 5 THEN q
       ELSE IF r > 5 THEN q + 1
       ELSE IF q % 2 = 0 THEN q ELSE q + 1

Threshold == 5        \* 0.5 degrees, in tenths
WindowLen == 5        \* i:i+5

\* Variant: range(len(oni_series) - 5), the last window never looked at.
scan_range_short(n) == n - WindowLen

\* Line 23: range(len(oni_series) - 4); empty when the difference is <= 0.
scan_range(n) == n - (WindowLen - 1)

\* Line 24: oni_series[k : k + 5], k 0-based.
window(s, k) == SubSeq(s, k + 1, k + WindowLen)

\* Variant: any(window >= 0.5).
any_warm(w) == \E q \in 1..Len(w) : w[q] >= Threshold

\* Lines 25, 28: all(window >= 0.5), all(window <= -0.5).
all_warm(w) == \A q \in 1..Len(w) : w[q] >= Threshold
all_cold(w) == \A q \in 1..Len(w) : w[q] <= 0 - Threshold

\* Lines 26-27, 29-30: the five labels of window k overwritten.
set_labels(c, k, label) ==
    [q \in 1..Len(c) |-> IF q \in (k + 1)..(k + WindowLen) THEN label ELSE c[q]]

\* The rest of the model stays as constructed.
spei == <<data, columns, pc, timescale, rolling_balance, spei_values, i,
          fit_calls, result, exception, numerics, others>>

\* calculate_spei_custom is not running and has no table.
NoCall ==
    /\ data = DataFrame(<<>>)
    /\ numerics = "exact"
    /\ columns = NoColumns
    /\ pc = "idle"
    /\ timescale = 0
    /\ rolling_balance = <<>>
    /\ spei_values = <<>>
    /\ i = 0
    /\ fit_calls = <<>>
    /\ result = None
    /\ exception = "none"

InitENSO ==
    /\ oni_series \in OniInputs
    /\ rounded = <<>>
    /\ classification = <<>>
    /\ win = 0
    /\ epc = "start"
    /\ NoCall
    /\ NoAggregation
    /\ NoQualityControl
    /\ NoResolve
    /\ NoAnalysis

\* Lines 21-22: round, then one 'N' per season.
RoundAndFill ==
    /\ epc = "start"
    /\ rounded' = [q \in 1..Len(oni_series) |-> round1(oni_series[q])]
    /\ classification' = [q \in 1..Len(oni_series) |-> "N"]
    /\ win' = 0
    /\ epc' = "scan"
    /\ UNCHANGED <<oni_series, spei, agg>>

\* Lines 23-30: one iteration of the loop over the windows.
ScanWindow ==
    /\ epc = "scan"
    /\ win < scan_range(Len(rounded))
    /\ classification' =
          IF all_warm(window(rounded, win))
          THEN set_labels(classification, win, "EN")
          ELSE IF all_cold(window(rounded, win))
          THEN set_labels(classification, win, "LN")
          ELSE classification
    /\ win' = win + 1
    /\ UNCHANGED <<oni_series, rounded, epc, spei, agg>>

\* Line 31: the loop is over, the list is returned.
ReturnLabels ==
    /\ epc = "scan"
    /\ win >= scan_range(Len(rounded))
    /\ epc' = "done"
    /\ UNCHANGED <<oni_series, rounded, classification, win, spei, agg>>

NextENSO ==
    \/ RoundAndFill
    \/ ScanWindow
    \/ ReturnLabels

SpecENSO == InitENSO /\ [][NextENSO]_vars

-----------------------------------------------------------------------------
(* src/Monthly_Annual_aggregation.py: aggregate_data                       *)

MaxDates == 6

Date(y, m, d) == [y |-> y, m |-> m, d |-> d]

\* The days a csv may have a row for: either side of a year's end and of a
\* water year's end, with a day missing inside January.
Calendar ==
    << Date(2023, 12, 31), Date(2024, 1, 1), Date(2024, 1, 3), Date(2024, 6, 30),
       Date(2024, 7, 1), Date(2024, 7, 2), Date(2025, 1, 1), Date(2025, 1, 2) >>

Dates == SubSeq(Calendar, 1, IF MaxDates < Len(Calendar) THEN MaxDates ELSE Len(Calendar))

\* Line 136: (end_date - start_date).days, from the proleptic day count.
IsLeap(y) == (y % 4 = 0 /\ y % 100 # 0) \/ y % 400 = 0
DaysInMonth(y, m) ==
    IF m = 2 THEN (IF IsLeap(y) THEN 29 ELSE 28)
    ELSE IF m \in {4, 6, 9, 11} THEN 30 ELSE 31

RECURSIVE DaysBeforeMonth(_, _)
DaysBeforeMonth(y, m) ==
    IF m = 1 THEN 0 ELSE DaysBeforeMonth(y, m - 1) + DaysInMonth(y, m - 1)

RECURSIVE DaysBeforeYear(_)
DaysBeforeYear(y) ==
    IF y <= Calendar[1].y THEN 0
    ELSE DaysBeforeYear(y - 1) + (IF IsLeap(y - 1) THEN 366 ELSE 365)

toordinal(date) == DaysBeforeYear(date.y) + DaysBeforeMonth(date.y, date.m) + date.d

\* Line 107: the rows of the csv.  A day has no row, a row with a missing
\* value, or a row with a value (a different power of two each day, so that a
\* sum tells which rows went into it).
Row(k, cell) == [Date |-> Dates[k], v |-> IF cell = "nan" THEN NaN ELSE Num(2 ^ (k - 1))]
Rows(f) ==
    LET present == SelectSeq([k \in 1..Len(Dates) |-> k], LAMBDA k : f[k] # "none")
    IN [q \in 1..Len(present) |-> Row(present[q], f[present[q]])]
Tables == {Rows(f) : f \in [1..Len(Dates) -> {"none", "nan", "num"}]}

\* Line 51: the percentage the user enters.
Thresholds == {0, 1, 60, 100}

\* Lines 124-128.
total_variables == {"stn_SR", "stn_Pr", "stn_ETo", "cdb_SR", "cdb_Pr", "cdb_ETo"}
mean_variables ==
    {"stn_Tmax", "stn_Tmin", "stn_RHmax", "stn_RHmin", "stn_WSmean",
     "cdb_Tmax", "cdb_Tmin", "cdb_RHmax", "cdb_RHmin", "cdb_WSmean"}
Followed == {"stn_Pr", "stn_Tmax"}

\* Lines 113, 160: strftime("%Y%m"), six digits read as a number.
YearMonth(date) == date.y * 100 + date.m

\* Variant: the water year turning a month early, in June.
WaterYear_from_june(date) == IF date.m >= 6 THEN date.y + 1 ELSE date.y

\* Line 111 and line 118.
Year(date) == date.y
WaterYear(date) == IF date.m >= 7 THEN date.y + 1 ELSE date.y

\* Lines 111-121: the columns derived from a row's date.
column(date, name) ==
    IF name = "YearMonth" THEN YearMonth(date)
    ELSE IF name = "WaterYear" THEN WaterYear(date)
    ELSE Year(date)

\* Lines 116-121.
annual_column(season) == IF season = "water" THEN "WaterYear" ELSE "Year"

\* Lines 161, 166: groupby; the group names and the rows of one group.
groupby(rows, by) == {column(rows[q].Date, by) : q \in 1..Len(rows)}
get_group(rows, by, name) == SelectSeq(rows, LAMBDA r : column(r.Date, by) = name)

\* Variant: the number of rows of the group instead of its span in days.
total_days_rows(group) == Len(group)

\* Lines 134-136: the days from the group's first date to its last, inclusive.
total_days(group) ==
    LET ords == {toordinal(group[q].Date) : q \in 1..Len(group)}
        start_date == CHOOSE a \in ords : \A b \in ords : a <= b
        end_date == CHOOSE a \in ords : \A b \in ords : a >= b
    IN (end_date - start_date) + 1

\* Lines 142, 150, 176: notna().sum().
valid_days(group) == Len(SelectSeq(group, LAMBDA r : ~IsNaN(r.v)))

\* Lines 104, 143, 151: valid_days / total_days >= threshold / 100.0.
meets(valid, total, thr) == valid * 100 >= thr * total

\* Line 144: Series.sum() skips missing values; 0.0 when there is none.
RECURSIVE series_sum(_)
series_sum(group) ==
    IF group = <<>> THEN 0
    ELSE (IF IsNaN(Head(group).v) THEN 0 ELSE Head(group).v.v) + series_sum(Tail(group))
group_sum(group) == Num(series_sum(group))

\* Line 152: Series.mean() skips missing values; NaN when there is none.
group_mean(group) ==
    IF valid_days(group) = 0 THEN NaN
    ELSE [kind |-> "mean", sum |-> series_sum(group), n |-> valid_days(group)]

\* Lines 141-154 for one variable of one group.
aggregate_value(group, var, thr) ==
    IF meets(valid_days(group), total_days(group), thr)
    THEN (IF var \in total_variables THEN group_sum(group) ELSE group_mean(group))
    ELSE NaN

\* Lines 130-157: one row per group.
aggregate(rows, time_unit, var, thr) ==
    [name \in groupby(rows, time_unit) |->
        aggregate_value(get_group(rows, time_unit, name), var, thr)]

\* Line 174.
total_days_in_year == 365

\* Line 177: valid_days < total_days_in_year * threshold.
below_full_year(valid, thr) == valid * 100 < total_days_in_year * thr

InitAgg ==
    /\ table \in Tables
    /\ threshold \in Thresholds
    /\ annual_season \in {"calendar", "water"}
    /\ variable \in Followed
    /\ monthly_data = NoRows
    /\ annual_data = NoRows
    /\ apc = "start"
    /\ NoCall
    /\ NoClassification
    /\ NoQualityControl
    /\ NoResolve
    /\ NoAnalysis

\* Lines 160-163: the monthly aggregation.
AggregateMonthly ==
    /\ apc = "start"
    /\ monthly_data' = aggregate(table, "YearMonth", variable, threshold)
    /\ apc' = "monthly"
    /\ UNCHANGED <<table, threshold, annual_season, variable, annual_data, spei, enso>>

\* Lines 166-168: the annual aggregation.
AggregateAnnual ==
    /\ apc = "monthly"
    /\ annual_data' = aggregate(table, annual_column(annual_season), variable, threshold)
    /\ apc' = "annual"
    /\ UNCHANGED <<table, threshold, annual_season, variable, monthly_data, spei, enso>>

\* Variant: the check applied to annual_data["date"].min(), the first year.
LastYearCheck_first_year ==
    /\ apc = "annual"
    /\ IF DOMAIN annual_data = {}
       THEN /\ apc' = "raised"
            /\ UNCHANGED annual_data
       ELSE LET first_year == CHOOSE a \in DOMAIN annual_data :
                                  \A b \in DOMAIN annual_data : a <= b
                first_year_data == get_group(table, annual_column(annual_season), first_year)
            IN /\ annual_data' =
                     IF below_full_year(valid_days(first_year_data), threshold)
                     THEN [annual_data EXCEPT ![first_year] = NaN]
                     ELSE annual_data
               /\ apc' = "qc"
    /\ UNCHANGED <<table, threshold, annual_season, variable, monthly_data, spei, enso>>

\* Lines 170-178: the additional check of the last year.  From a csv without
\* rows the aggregate has no 'date' column and line 171 raises KeyError.
LastYearCheck ==
    /\ apc = "annual"
    /\ IF DOMAIN annual_data = {}
       THEN /\ apc' = "raised"
            /\ UNCHANGED annual_data
       ELSE LET last_year == CHOOSE a \in DOMAIN annual_data :
                                 \A b \in DOMAIN annual_data : a >= b
                last_year_data == get_group(table, annual_column(annual_season), last_year)
            IN /\ annual_data' =
                     IF below_full_year(valid_days(last_year_data), threshold)
                     THEN [annual_data EXCEPT ![last_year] = NaN]
                     ELSE annual_data
               /\ apc' = "qc"
    /\ UNCHANGED <<table, threshold, annual_season, variable, monthly_data, spei, enso>>

\* Lines 180-197: the two tables are written.
Save ==
    /\ apc = "qc"
    /\ apc' = "done"
    /\ UNCHANGED <<table, threshold, annual_season, variable, monthly_data,
                   annual_data, spei, enso>>

NextAgg ==
    \/ AggregateMonthly
    \/ AggregateAnnual
    \/ LastYearCheck
    \/ Save

SpecAgg == InitAgg /\ [][NextAgg]_vars

-----------------------------------------------------------------------------
(* src/Consolidate_stationdata.py: resolve_duplicate_dates                 *)

MaxDupRows == 3

\* Line 141: dates as YYYYMMDD strings, read as numbers.
DupDates == {20240101, 20240102}

\* Line 173: combined_df, with the RangeIndex of ignore_index=True.  Two of
\* the important columns stand for the twelve.
StationRow(k, r) == [index |-> k - 1, Date |-> r[1], Tmax |-> r[2], Pr |-> r[3]]
StationCells == {NaN, Num(2)}
Frames ==
    {[k \in 1..Len(t) |-> StationRow(k, t[k])] :
        t \in SeqsUpTo(DupDates \X StationCells \X StationCells, MaxDupRows)}

\* Line 185: group[important_columns].isnull().sum(axis=1) for one row.
isnull_sum(r) ==
    (IF IsNaN(r.Tmax) THEN 1 ELSE 0) + (IF IsNaN(r.Pr) THEN 1 ELSE 0)

\* Line 185: idxmin(), the index label of the first row with the least count.
idxmin(group) ==
    LET first == CHOOSE q \in 1..Len(group) :
                     /\ \A x \in 1..Len(group) : isnull_sum(group[q]) <= isnull_sum(group[x])
                     /\ \A x \in 1..(q - 1) : isnull_sum(group[x]) > isnull_sum(group[q])
    IN group[first].index

\* Line 185: group.loc[label], the row with that label.
loc(group, label) ==
    group[CHOOSE q \in 1..Len(group) : group[q].index = label]

\* Variant: group.iloc[0] for every group.
first_of_group(group) == group[1]

\* Lines 181-186: the row kept for one group.
most_complete_row(group) ==
    IF Len(group) = 1 THEN group[1] ELSE loc(group, idxmin(group))

\* Lines 177, 180: the groups in the order of their keys; the next key is
\* the least one with no row in resolved_rows yet.
pending(frm, kept) ==
    {frm[q].Date : q \in 1..Len(frm)} \ {kept[q].Date : q \in 1..Len(kept)}
date_group(frm, date) == SelectSeq(frm, LAMBDA r : r.Date = date)

InitResolve ==
    /\ df \in Frames
    /\ resolved_rows = <<>>
    /\ returned = None
    /\ dpc = "groups"
    /\ NoCall
    /\ NoClassification
    /\ NoAggregation
    /\ NoQualityControl
    /\ NoAnalysis

\* Lines 180-186: one iteration of the loop over the groups.
ResolveGroup ==
    /\ dpc = "groups"
    /\ pending(df, resolved_rows) # {}
    /\ LET date == CHOOSE a \in pending(df, resolved_rows) :
                       \A b \in pending(df, resolved_rows) : a <= b
       IN resolved_rows' = Append(resolved_rows, most_complete_row(date_group(df, date)))
    /\ UNCHANGED <<df, returned, dpc, row, qpc, results, results_df, grouped,
                   probabilities, anpc, data, columns, pc, timescale,
                   rolling_balance, spei_values, i, fit_calls, result, exception,
                   numerics, enso, agg>>

\* Line 188: pd.DataFrame(resolved_rows).
ReturnResolved ==
    /\ dpc = "groups"
    /\ pending(df, resolved_rows) = {}
    /\ returned' = resolved_rows
    /\ dpc' = "done"
    /\ UNCHANGED <<df, resolved_rows, row, qpc, results, results_df, grouped,
                   probabilities, anpc, data, columns, pc, timescale,
                   rolling_balance, spei_values, i, fit_calls, result, exception,
                   numerics, enso, agg>>

NextResolve ==
    \/ ResolveGroup
    \/ ReturnResolved

SpecResolve == InitResolve /\ [][NextResolve]_vars

-----------------------------------------------------------------------------
(* src/Consolidate_stationdata.py: apply_quality_control                   *)

\* A column that df does not have.  Values are in tenths of the unit.
NoCol == [kind |-> "nocol"]
IsNum(x) == x # NoCol /\ ~IsNaN(x)

\* Line 33 and lines 70-79, in tenths.
weather_columns == {"Tmax", "Tmin", "RHmax", "RHmin", "WSmean", "SR"}
qc_thresholds ==
    [Tmax |-> <<0 - 99, 509>>, Tmin |-> <<0 - 209, 349>>, RHmax |-> <<0, 1000>>,
     RHmin |-> <<0, 1000>>, WSmean |-> <<0, 499>>, SR |-> <<0, 399>>,
     Pr |-> <<0, 5970>>, ETo |-> <<0, 150>>]

\* The cells a row may come in with: values inside and outside the
\* thresholds, and the pairs the consistency rules are about.
RowCells ==
    [Tmax : {NoCol, NaN, Num(0 - 100), Num(0), Num(310), Num(510)},
     Tmin : {NoCol, NaN, Num(0 - 210), Num(0 - 10), Num(0), Num(320)},
     RHmax : {NoCol, NaN, Num(0), Num(500), Num(1010)},
     RHmin : {NoCol, NaN, Num(0), Num(600)},
     WSmean : {NoCol, Num(50), Num(500)},
     SR : {NaN, Num(50)},
     Pr : {NaN, Num(50), Num(5980)},
     ETo : {NoCol, NaN, Num(50), Num(160)}]

\* "col in df.columns".
in_columns(r, c) == r[c] # NoCol

\* Comparisons of a cell with a number: False on NaN.
lt(x, v) == IsNum(x) /\ x.v < v
gt(x, v) == IsNum(x) /\ x.v > v
eq(x, v) == IsNum(x) /\ x.v = v

\* df.loc[mask, cols] = np.nan on the columns df has.
set_nan(r, cols) ==
    [c \in DOMAIN r |-> IF c \in cols /\ in_columns(r, c) THEN NaN ELSE r[c]]

\* Lines 82-84.
threshold_rules(r) ==
    set_nan(r, {c \in DOMAIN r :
                   \/ lt(r[c], qc_thresholds[c][1])
                   \/ gt(r[c], qc_thresholds[c][2])})

\* Lines 87-92.
frost_rule(r) ==
    IF in_columns(r, "Tmax") /\ in_columns(r, "Tmin")
       /\ gt(r.Tmax, 300) /\ lt(r.Tmin, 0)
    THEN set_nan(r, {"Tmax", "Tmin", "RHmax", "RHmin"})
    ELSE r

\* Lines 94-101 and 103-109: max below min, then both zero.
pair_rules(r, hi, lo) ==
    IF in_columns(r, hi) /\ in_columns(r, lo)
    THEN LET r1 == IF IsNum(r[hi]) /\ IsNum(r[lo]) /\ r[hi].v < r[lo].v
                   THEN set_nan(r, {hi, lo}) ELSE r
         IN IF eq(r1[hi], 0) /\ eq(r1[lo], 0) THEN set_nan(r1, {hi, lo}) ELSE r1
    ELSE r

\* Variant: isnull().all(axis=1).
weather_all_missing(r) == \A c \in weather_columns : IsNaN(r[c])

\* Line 113: df[weather_columns].isnull().any(axis=1).
weather_vars_missing(r) == \E c \in weather_columns : IsNaN(r[c])

\* What apply_quality_control does not touch.
not_quality == <<df, resolved_rows, returned, dpc, results, results_df, grouped,
                 probabilities, anpc, data, columns, pc, timescale,
                 rolling_balance, spei_values, i, fit_calls, result, exception,
                 numerics, enso, agg>>

InitQC ==
    /\ row \in RowCells
    /\ qpc = "thresholds"
    /\ NoCall
    /\ NoClassification
    /\ NoAggregation
    /\ NoResolve
    /\ NoAnalysis

ThresholdRules ==
    /\ qpc = "thresholds"
    /\ row' = threshold_rules(row)
    /\ qpc' = "frost"
    /\ UNCHANGED not_quality

FrostRule ==
    /\ qpc = "frost"
    /\ row' = frost_rule(row)
    /\ qpc' = "tmax_tmin"
    /\ UNCHANGED not_quality

TemperatureRules ==
    /\ qpc = "tmax_tmin"
    /\ row' = pair_rules(row, "Tmax", "Tmin")
    /\ qpc' = "rh"
    /\ UNCHANGED not_quality

HumidityRules ==
    /\ qpc = "rh"
    /\ row' = pair_rules(row, "RHmax", "RHmin")
    /\ qpc' = "eto"
    /\ UNCHANGED not_quality

\* Lines 111-114; df[weather_columns] raises KeyError when df lacks one.
EToRule ==
    /\ qpc = "eto"
    /\ IF ~in_columns(row, "ETo")
       THEN /\ qpc' = "return"
            /\ UNCHANGED row
       ELSE IF \E c \in weather_columns : ~in_columns(row, c)
       THEN /\ qpc' = "raised"
            /\ UNCHANGED row
       ELSE /\ row' = IF weather_vars_missing(row) THEN set_nan(row, {"ETo"}) ELSE row
            /\ qpc' = "return"
    /\ UNCHANGED not_quality

\* Line 116.
ReturnQC ==
    /\ qpc = "return"
    /\ qpc' = "done"
    /\ UNCHANGED <<row, not_quality>>

NextQC ==
    \/ ThresholdRules
    \/ FrostRule
    \/ TemperatureRules
    \/ HumidityRules
    \/ EToRule
    \/ ReturnQC

SpecQC == InitQC /\ [][NextQC]_vars

-----------------------------------------------------------------------------
(* src/ENSO_SPEI_analysis_3m_multiplot.py, lines 133-149 (the 6-month      *)
(* script has the same lines 131-147)                                      *)

MaxEvents == 2

\* Lines 67-71, 140.
SeasonNames == {"SON", "DJF", "MAM"}
Phases == {"EN", "N", "LN"}
Categories == {"Dry", "Near-Normal", "Wet"}

\* SPEI_3 of an event, in tenths: -1.0, 0.9, 1.0, or missing.
SpeiVals == {Num(0 - 10), Num(9), Num(10), NaN}

\* Line 116: one event appended to results.
Event(t) == [Season |-> t[1], SPEI_3 |-> t[2], ENSO_Phase |-> t[3]]
EventLists ==
    {[k \in 1..Len(t) |-> Event(t[k])] :
        t \in SeqsUpTo(SeasonNames \X SpeiVals \X Phases, MaxEvents)}

\* Line 135: "Dry" if x <= -1.0 else "Wet" if x >= 1.0 else "Near-Normal";
\* both comparisons are False on NaN.
Rainfall_Category(x) ==
    IF ~IsNaN(x) /\ x.v <= 0 - 10 THEN "Dry"
    ELSE IF ~IsNaN(x) /\ x.v >= 10 THEN "Wet"
    ELSE "Near-Normal"

\* Line 138: groupby([...]).size(), and line 143: reindex(index, fill_value=0)
\* over the seasons of results_df, the three phases and the three categories.
size(rdf, s, ph, c) ==
    Cardinality({q \in 1..Len(rdf) :
        rdf[q].Season = s /\ rdf[q].ENSO_Phase = ph /\ rdf[q].Rainfall_Category = c})
unique_seasons(rdf) == {rdf[q].Season : q \in 1..Len(rdf)}
reindexed(rdf) ==
    [k \in unique_seasons(rdf) \X Phases \X Categories |-> size(rdf, k[1], k[2], k[3])]

\* Variant: the sum over the whole season, all phases together.
season_sum(g, s, ph) ==
    g[<<s, "EN", "Dry">>] + g[<<s, "EN", "Near-Normal">>] + g[<<s, "EN", "Wet">>]
    + g[<<s, "N", "Dry">>] + g[<<s, "N", "Near-Normal">>] + g[<<s, "N", "Wet">>]
    + g[<<s, "LN", "Dry">>] + g[<<s, "LN", "Near-Normal">>] + g[<<s, "LN", "Wet">>]

\* Line 146: probabilities.sum(axis=1), the sum of a (season, phase) row.
row_sum(g, s, ph) ==
    g[<<s, ph, "Dry">>] + g[<<s, ph, "Near-Normal">>] + g[<<s, ph, "Wet">>]

\* Line 146: div, a fraction; 0 / 0 is NaN, and fillna(0) makes it 0.
Frac(n, d) == [kind |-> "frac", num |-> n, den |-> d]
div(n, d) == IF d = 0 THEN NaN ELSE Frac(n, d)
fillna0(x) == IF IsNaN(x) THEN Frac(0, 1) ELSE x

\* Lines 145-146: unstack, div, fillna.
normalized(g) ==
    [k \in {<<t[1], t[2]>> : t \in DOMAIN g} |->
        [c \in Categories |-> fillna0(div(g[<<k[1], k[2], c>>], row_sum(g, k[1], k[2])))]]

\* What the analysis does not touch.
not_analysis == <<row, qpc, df, resolved_rows, returned, dpc, data, columns, pc,
                  timescale, rolling_balance, spei_values, i, fit_calls, result,
                  exception, numerics, enso, agg>>

InitAnalysis ==
    /\ results \in EventLists
    /\ results_df = <<>>
    /\ grouped = <<>>
    /\ probabilities = <<>>
    /\ anpc = "start"
    /\ NoCall
    /\ NoClassification
    /\ NoAggregation
    /\ NoQualityControl
    /\ NoResolve

\* Lines 134-135.  Without events results_df has no column and
\* results_df["SPEI_3"] raises KeyError.
Categorise ==
    /\ anpc = "start"
    /\ IF results = <<>>
       THEN /\ anpc' = "raised"
            /\ UNCHANGED results_df
       ELSE /\ results_df' =
                  [q \in 1..Len(results) |->
                      [Season |-> results[q].Season,
                       SPEI_3 |-> results[q].SPEI_3,
                       ENSO_Phase |-> results[q].ENSO_Phase,
                       Rainfall_Category |-> Rainfall_Category(results[q].SPEI_3)]]
            /\ anpc' = "categorised"
    /\ UNCHANGED <<results, grouped, probabilities, not_analysis>>

\* Lines 138-143.
GroupAndReindex ==
    /\ anpc = "categorised"
    /\ grouped' = reindexed(results_df)
    /\ anpc' = "grouped"
    /\ UNCHANGED <<results, results_df, probabilities, not_analysis>>

\* Lines 145-149.
Normalize ==
    /\ anpc = "grouped"
    /\ probabilities' = normalized(grouped)
    /\ anpc' = "done"
    /\ UNCHANGED <<results, results_df, grouped, not_analysis>>

NextAnalysis ==
    \/ Categorise
    \/ GroupAndReindex
    \/ Normalize

SpecAnalysis == InitAnalysis /\ [][NextAnalysis]_vars

-----------------------------------------------------------------------------
(* Properties                                                              *)

wb == data.WaterBalance
N == Len(data.WaterBalance)

\* The call in progress has computed its rolling sum.
HasRolling == pc \in {"loop", "done"}

AllAbsent(s) == \A k \in 1..Len(s) : IsNaN(s[k])
GapFree(s) == \A k \in 1..Len(s) : ~IsNaN(s[k])
DefinedCount(s) == Cardinality({k \in 1..Len(s) : ~IsNaN(s[k])})

\* The number of leading absent values of a series.
LeadingAbsent(s) == Cardinality({k \in 1..Len(s) : \A j \in 1..k : IsNaN(s[j])})

\* The table cut after its first n months.
Prefix(d, n) == DataFrame(SubSeq(d.WaterBalance, 1, n))

\* All T months of the window ending at 1-based position p exist and are defined.
WindowDefined(s, p, T) ==
    /\ p - T + 1 >= 1
    /\ \A q \in (p - T + 1)..p : ~IsNaN(s[q])

RECURSIVE WindowTotal(_, _, _)
WindowTotal(s, lo, hi) ==
    IF lo > hi THEN 0 ELSE s[hi].v + WindowTotal(s, lo, hi - 1)

\* C1: every returned series, and every column assigned from one, has exactly
\* one entry per row of the input table and carries the table's own index.
C1_SameLengthSameIndex ==
    /\ pc = "done" =>
          /\ Len(result.values) = N
          /\ DOMAIN result.values = DOMAIN wb
          /\ result.index = data.index
    /\ \A T \in DOMAIN columns :
          /\ Len(columns[T].values) = N
          /\ columns[T].index = data.index

C1_Witness ==
    /\ pc = "done"
    /\ timescale = 2
    /\ N >= 3
    /\ \E k \in 1..N : IsNaN(result.values[k])
    /\ \E k \in 1..N : ~IsNaN(result.values[k])

\* C2: the value appended at position k is the value the call gives at k on
\* the table cut after any month n > k; the call on the cut table gets as far
\* as k too.  (Two tables that agree on 0..k have the same cut after k.)
C2_Causal ==
    HasRolling =>
        \A n \in 1..N :
            LET cut == calculate_spei_custom(Prefix(data, n), timescale)
            IN \A k \in 0..(Len(spei_values) - 1) :
                   k < n => /\ Len(cut.values) > k
                            /\ cut.values[k + 1] = spei_values[k + 1]

C2_Witness ==
    /\ pc = "done"
    /\ timescale = 2
    /\ N >= 4
    /\ ~IsNaN(result.values[2])
    /\ ~IsNaN(result.values[3])
    /\ ~IsNaN(result.values[4])
    /\ result.values[2] = calculate_spei_custom(Prefix(data, 2), timescale).values[2]

\* C3: for T >= 1 the rolling sum at a position is defined iff all T months
\* of its trailing window exist and are defined.
C3_RollingSumDefinedIff ==
    (HasRolling /\ timescale >= 1) =>
        /\ Len(rolling_balance) = N
        /\ \A p \in 1..N :
              ~IsNaN(rolling_balance[p]) <=> WindowDefined(wb, p, timescale)

C3_Witness ==
    /\ HasRolling
    /\ timescale = 2
    /\ \E p \in 1..N : ~IsNaN(rolling_balance[p])
    /\ \E p \in timescale..N : IsNaN(rolling_balance[p])

\* C4: a defined rolling sum is the total of the T months of its window,
\* all of them present.
C4_RollingSumIsWindowTotal ==
    (HasRolling /\ timescale >= 1) =>
        \A p \in 1..N :
            ~IsNaN(rolling_balance[p]) =>
                /\ WindowDefined(wb, p, timescale)
                /\ rolling_balance[p].v = WindowTotal(wb, p - timescale + 1, p)

C4_Witness ==
    /\ HasRolling
    /\ timescale = 3
    /\ N >= 4
    /\ ~IsNaN(rolling_balance[3])
    /\ ~IsNaN(rolling_balance[4])
    /\ rolling_balance[3] # rolling_balance[4]

\* C5: on a gap-free table of N months every column assigned for a timescale
\* T >= 1 has length N and, when N >= T, exactly T-1 leading absent values
\* (so position T-1 is defined): 2, 5 and 11 for the driver's 3, 6 and 12.
C5_LeadingAbsent ==
    GapFree(wb) =>
        \A T \in DOMAIN columns :
            T >= 1 =>
                /\ Len(columns[T].values) = N
                /\ N >= T => LeadingAbsent(columns[T].values) = T - 1
                /\ N < T => LeadingAbsent(columns[T].values) = N

C5_Witness ==
    /\ N >= 12
    /\ DOMAIN columns = {3, 6, 12}
    /\ LeadingAbsent(columns[3].values) = 2
    /\ LeadingAbsent(columns[6].values) = 5
    /\ LeadingAbsent(columns[12].values) = 11
    /\ ~IsNaN(columns[12].values[12])

\* C6: a call with T >= 1 on a table of T-1 months never fits, never raises,
\* can always take its next step, and returns a series of absent values.
C6_ShortSeriesAllAbsent ==
    /\ (timescale >= 1 /\ N = timescale - 1 /\ pc \notin {"idle", "rolling"}) =>
          /\ pc # "raised"
          /\ fit_calls = <<>>
          /\ AllAbsent(spei_values)
          /\ pc = "loop" => ENABLED (LoopSkip \/ Return)
          /\ pc = "done" => (Len(result.values) = N /\ AllAbsent(result.values))
    /\ \A T \in DOMAIN columns :
          (T >= 1 /\ N = T - 1) => AllAbsent(columns[T].values)

C6_Witness ==
    /\ pc = "done"
    /\ timescale = 3
    /\ N = 2
    /\ GapFree(wb)
    /\ AllAbsent(result.values)

\* C7 (as claimed): a call with T >= 1 on a table with fewer than T defined
\* months completes, and its whole output is absent.
C7_FewDefinedAllAbsent ==
    (timescale >= 1 /\ DefinedCount(wb) < timescale /\ pc \notin {"idle", "rolling"}) =>
        /\ pc # "raised"
        /\ AllAbsent(spei_values)

\* C8: no index value is produced where the rolling sum is absent.
C8_AbsentSumAbsentIndex ==
    HasRolling =>
        /\ \A k \in 1..Len(spei_values) :
              IsNaN(rolling_balance[k]) => IsNaN(spei_values[k])
        /\ pc = "done" =>
              \A k \in 1..N : IsNaN(rolling_balance[k]) => IsNaN(result.values[k])

C8_Witness ==
    /\ pc = "done"
    /\ timescale = 2
    /\ \E k \in 2..N, later \in 3..N :
          /\ k < later
          /\ ~IsNaN(result.values[k])
          /\ IsNaN(rolling_balance[later])
          /\ IsNaN(result.values[later])

\* C9 (as claimed): a fit that fails at one position of a call with T >= 1
\* does not end the call.
C9_FailureStaysLocal ==
    (timescale >= 1 /\ fit_calls # <<>>) => pc # "raised"

\* C10 (as claimed): a call with T <= 0 ends in an exception raised before
\* any rolling sum or fit, and no series is returned or assigned.
C10_NonPositiveRejected ==
    /\ (timescale <= 0 /\ pc \notin {"idle", "rolling"}) =>
          /\ pc = "raised"
          /\ rolling_balance = <<>>
          /\ fit_calls = <<>>
          /\ result = None
    /\ \A T \in DOMAIN columns : T >= 1

\* Periods strictly increasing, hence distinct.
StrictlyIncreasing(ym) ==
    \A a \in 1..Len(ym), b \in 1..Len(ym) : a < b => ym[a] < ym[b]

\* C11 (as claimed): a call on a table whose periods are not strictly
\* increasing ends in an exception before any rolling sum or fit, and
\* nothing is returned or assigned.
C11_MalformedRejected ==
    ~StrictlyIncreasing(data.YearMonth) =>
        /\ (timescale >= 1 /\ pc \notin {"idle", "rolling"}) =>
              /\ pc = "raised"
              /\ rolling_balance = <<>>
              /\ fit_calls = <<>>
        /\ \A T \in DOMAIN columns : T <= 0

\* An index value that is plus or minus infinity.
IsInf(z) == ~IsNaN(z) /\ z.is \in {"-inf", "+inf"}

\* C12 (as claimed): whatever probability the fit gives, 0.0 and 1.0
\* included, no position of the list or of the returned series holds an
\* infinity.
C12_NoInfinity ==
    HasRolling =>
        /\ \A k \in 1..Len(spei_values) : ~IsInf(spei_values[k])
        /\ pc = "done" => \A k \in 1..Len(result.values) : ~IsInf(result.values[k])

\* Every month has the same defined value.
Constant(s) == \A a \in 1..Len(s), b \in 1..Len(s) : ~IsNaN(s[a]) /\ s[a] = s[b]

\* C13 (as claimed): on a constant table a call with T >= 1 does not raise
\* and every position, those from T-1 on included, is absent.
C13_ConstantSeriesAbsent ==
    (Constant(wb) /\ timescale >= 1 /\ HasRolling) =>
        /\ AllAbsent(spei_values)
        /\ pc = "done" => AllAbsent(result.values)

\* C14: a call returns what an earlier call with the same table and the same
\* timescale returned, whatever was called before or in between; the series
\* is a function of the two arguments.
C14_Deterministic ==
    pc = "done" =>
        /\ timescale \in DOMAIN columns => result = columns[timescale]
        /\ result.values = calculate_spei_custom(data, timescale).values

C14_Witness ==
    /\ pc = "done"
    /\ timescale = 2
    /\ {2, 3} \subseteq DOMAIN columns
    /\ result = columns[2]
    /\ \E k \in 1..N : ~IsNaN(result.values[k])

\* C15: no step of a call changes the input table; the columns of the table
\* change only when the caller assigns a returned series.
C15_InputUnchanged ==
    [][data' = data /\ (pc # "done" => columns' = columns)]_vars

C15_Witness ==
    /\ pc = "done"
    /\ timescale = 2
    /\ N >= 3
    /\ rolling_balance # wb
    /\ \E k \in 1..N : ~IsNaN(result.values[k])

\* C16: on a gap-free table of at least T months a call with T >= 1 does
\* not raise; positions 0..T-2 are absent and position T-1 holds
\* norm.ppf(pearson3.cdf(r, fit of the one-element sample {r})), r the first
\* rolling sum: the first fit gets a sample of size exactly 1.
C16_FirstEligible ==
    (GapFree(wb) /\ timescale >= 1 /\ N >= timescale /\ pc \notin {"idle", "rolling"}) =>
        /\ pc # "raised"
        /\ Len(spei_values) >= timescale =>
              LET first == Num(WindowTotal(wb, 1, timescale))
              IN /\ \A k \in 1..(timescale - 1) : IsNaN(spei_values[k])
                 /\ ~IsNaN(spei_values[timescale])
                 /\ spei_values[timescale] =
                        norm_ppf(pearson3_cdf(first, pearson3_fit(<<first>>).params))
                 /\ fit_calls[1] = <<first>>

C16_Witness ==
    /\ pc = "done"
    /\ timescale = 3
    /\ N >= 4
    /\ GapFree(wb)
    /\ IsNaN(result.values[1])
    /\ IsNaN(result.values[2])
    /\ ~IsNaN(result.values[3])
    /\ Len(fit_calls[1]) = 1

\* C17 (as claimed): when the computation for one timescale is cancelled
\* while others are still to run, the driver can go on with them.
C17_CancelLeavesOthers ==
    (pc = "raised" /\ Cardinality(DOMAIN columns) < Len(DriverTimescales) - 1) =>
        ENABLED NextCancel

\* The defined rolling sums among the first n positions, in their order.
RECURSIVE DefinedUpTo(_, _)
DefinedUpTo(rb, n) ==
    IF n = 0 THEN <<>>
    ELSE IF IsNaN(rb[n]) THEN DefinedUpTo(rb, n - 1)
    ELSE Append(DefinedUpTo(rb, n - 1), rb[n])

\* The 0-based position of the j-th fit of the call in progress.
FitPosition(j) == (IF timescale >= 1 THEN timescale - 1 ELSE 0) + j - 1

\* C18: the sample of the fit at position k is the sequence of the defined
\* rolling sums at positions 0..k in their order: nothing from after k,
\* nothing standing for an absent sum, and the sum at k last when defined.
C18_SampleIsDefinedHistory ==
    HasRolling =>
        \A j \in 1..Len(fit_calls) :
            LET k == FitPosition(j)
                sample == fit_calls[j]
            IN /\ sample = DefinedUpTo(rolling_balance, k + 1)
               /\ \A q \in 1..Len(sample) : ~IsNaN(sample[q])
               /\ ~IsNaN(rolling_balance[k + 1]) =>
                     (sample # <<>> /\ sample[Len(sample)] = rolling_balance[k + 1])

C18_Witness ==
    /\ pc = "done"
    /\ timescale = 1
    /\ N >= 3
    /\ IsNaN(rolling_balance[2])
    /\ ~IsNaN(rolling_balance[1])
    /\ ~IsNaN(rolling_balance[3])
    /\ Len(fit_calls) >= 3
    /\ Len(fit_calls[3]) = 2

\* Season j (1-based) lies in a run of five consecutive seasons, inside the
\* series, whose anomalies rounded to one decimal all satisfy P.
InRun(j, P(_)) ==
    \E a \in 1..(Len(oni_series) - 4) :
        /\ j \in a..(a + 4)
        /\ \A q \in a..(a + 4) : P(round1(oni_series[q]))

Warm(t) == t >= 5
Cold(t) == t <= 0 - 5

\* C19: the returned label of season j is 'EN' exactly when j lies in a run
\* of five consecutive seasons with rounded ONI all >= 0.5, 'LN' exactly when
\* in such a run with all <= -0.5, and 'N' otherwise.
C19_InclusiveWindows ==
    epc = "done" =>
        /\ Len(classification) = Len(oni_series)
        /\ \A j \in 1..Len(oni_series) :
              /\ classification[j] = "EN" <=> InRun(j, Warm)
              /\ classification[j] = "LN" <=> InRun(j, Cold)
              /\ classification[j] = "N" <=> (~InRun(j, Warm) /\ ~InRun(j, Cold))

C19_Witness ==
    /\ epc = "done"
    /\ Len(oni_series) = 7
    /\ classification[1] = "N"
    /\ oni_series[1] = 45
    /\ \A j \in 3..7 : classification[j] = "EN"
    /\ classification[2] = "N"
    /\ oni_series[2] = 0 - 46

\* The rows of the table whose date has the given month, or annual label.
RowsOf(label(_), name) ==
    {q \in 1..Len(table) : label(table[q].Date) = name}
AnnualLabel(date) ==
    IF annual_season = "water"
    THEN (IF date.m \in 7..12 THEN date.y + 1 ELSE date.y)
    ELSE date.y
MonthLabel(date) == date.y * 100 + date.m

\* The count of non-missing values, the span in days from the first to the
\* last date, and the documented aggregate of a set of rows.
Valid(S) == Cardinality({q \in S : table[q].v # NaN})
Span(S) ==
    LET o(q) == toordinal(table[q].Date)
    IN 1 + (CHOOSE x \in {o(a) - o(b) : a \in S, b \in S} :
                \A a \in S, b \in S : x >= o(a) - o(b))
RECURSIVE Total(_)
Total(S) ==
    IF S = {} THEN 0
    ELSE LET q == CHOOSE x \in S : TRUE
         IN (IF table[q].v = NaN THEN 0 ELSE table[q].v.v) + Total(S \ {q})
Aggregate(S) ==
    IF variable \in {"stn_SR", "stn_Pr", "stn_ETo", "cdb_SR", "cdb_Pr", "cdb_ETo"}
    THEN Num(Total(S))
    ELSE IF Valid(S) = 0 THEN NaN
    ELSE [kind |-> "mean", sum |-> Total(S), n |-> Valid(S)]
RatioMet(S) == Valid(S) * 100 >= threshold * Span(S)
LastYear == CHOOSE a \in DOMAIN annual_data : \A b \in DOMAIN annual_data : a >= b

\* C20 (as claimed): in the tables aggregate_data writes, every monthly and
\* every annual group has a value exactly when its count of non-missing
\* values over its span in days reaches the threshold fraction.
C20_ReportedIffRatio ==
    apc = "done" =>
        /\ \A name \in DOMAIN monthly_data :
              monthly_data[name] # NaN <=> RatioMet(RowsOf(MonthLabel, name))
        /\ \A name \in DOMAIN annual_data :
              annual_data[name] # NaN <=> RatioMet(RowsOf(AnnualLabel, name))

\* C20 (amended): every monthly group and every annual group but the last
\* holds its aggregate (sum for SR/Pr/ETo, mean for the others, the mean of
\* no value being NaN) exactly when the ratio reaches the threshold and NaN
\* otherwise; the last annual group holds it exactly when, in addition, its
\* count of non-missing values is at least 365 times the threshold fraction.
C20_ReportedIffRatioButLastYear ==
    apc = "done" =>
        /\ DOMAIN monthly_data = {MonthLabel(table[q].Date) : q \in 1..Len(table)}
        /\ DOMAIN annual_data = {AnnualLabel(table[q].Date) : q \in 1..Len(table)}
        /\ \A name \in DOMAIN monthly_data :
              LET S == RowsOf(MonthLabel, name)
              IN monthly_data[name] = IF RatioMet(S) THEN Aggregate(S) ELSE NaN
        /\ \A name \in DOMAIN annual_data :
              LET S == RowsOf(AnnualLabel, name)
                  full == name = LastYear => Valid(S) * 100 >= 365 * threshold
              IN annual_data[name] = IF RatioMet(S) /\ full THEN Aggregate(S) ELSE NaN

C20_Witness ==
    /\ apc = "done"
    /\ threshold = 1
    /\ annual_season = "calendar"
    /\ variable = "stn_Tmax"
    /\ Cardinality(DOMAIN annual_data) = 2
    /\ \A name \in DOMAIN annual_data : annual_data[name] # NaN
    /\ \E name \in DOMAIN monthly_data : monthly_data[name] = NaN
    /\ \E name \in DOMAIN monthly_data :
          /\ monthly_data[name] # NaN
          /\ Span(RowsOf(MonthLabel, name)) > Cardinality(RowsOf(MonthLabel, name))

\* The annual period a date belongs to: with the water-year option the
\* period labelled L runs over the twelve months from July of L-1 to June of
\* L; with the calendar option it is the date's year.
MonthIndex(y, m) == y * 12 + m
Covers(L, date) ==
    IF annual_season = "water"
    THEN MonthIndex(date.y, date.m) \in MonthIndex(L - 1, 7)..MonthIndex(L, 6)
    ELSE L = date.y
RowDates == {table[q].Date : q \in 1..Len(table)}

\* C21: every date lies in exactly one annual period, the annual table has
\* exactly the periods that hold a date, labelled by the end year (water) or
\* the year (calendar), and each period's row is aggregated from exactly the
\* rows whose dates the period covers.
C21_WaterYearLabels ==
    apc \in {"annual", "qc", "done"} =>
        /\ \A date \in RowDates :
              Cardinality({L \in DOMAIN annual_data : Covers(L, date)}) = 1
        /\ \A L \in DOMAIN annual_data : \E date \in RowDates : Covers(L, date)
        /\ apc = "annual" =>
              \A L \in DOMAIN annual_data :
                  annual_data[L] =
                      aggregate_value(SelectSeq(table, LAMBDA r : Covers(L, r.Date)),
                                      variable, threshold)

C21_Witness ==
    /\ apc = "annual"
    /\ annual_season = "water"
    /\ threshold = 0
    /\ variable = "stn_Pr"
    /\ {Date(2023, 12, 31), Date(2024, 6, 30), Date(2024, 7, 1)} \subseteq RowDates
    /\ DOMAIN annual_data = {2024, 2025}
    /\ \A L \in DOMAIN annual_data : annual_data[L] # NaN

\* C22: the check of the last year leaves the last annual value absent
\* whenever the period's count of non-missing values is below 365 times the
\* threshold fraction; it turns values absent only: a value it leaves present
\* is the value the annual aggregation gave, and no other year changes.
C22_LastYearOnlyBlanks ==
    [][(apc = "annual" /\ apc' = "qc") =>
          /\ DOMAIN annual_data' = DOMAIN annual_data
          /\ \A name \in DOMAIN annual_data :
                /\ name # LastYear => annual_data'[name] = annual_data[name]
                /\ annual_data'[name] # NaN => annual_data'[name] = annual_data[name]
          /\ Valid(RowsOf(AnnualLabel, LastYear)) * 100 < 365 * threshold =>
                annual_data'[LastYear] = NaN]_vars

C22_Witness ==
    /\ apc = "qc"
    /\ threshold = 60
    /\ Cardinality(DOMAIN annual_data) = 2
    /\ RatioMet(RowsOf(AnnualLabel, LastYear))
    /\ annual_data[LastYear] = NaN
    /\ \E name \in DOMAIN annual_data : annual_data[name] # NaN

\* C26 (as claimed): every sample handed to pearson3.fit by a call with
\* T >= 1 holds at least one rolling sum.
C26_FitSampleNonEmpty ==
    timescale >= 1 => \A j \in 1..Len(fit_calls) : fit_calls[j] # <<>>

\* The labels after visiting the windows in the given order, from all 'N'.
Visit(c, k) ==
    LET w == [q \in 1..5 |-> round1(oni_series[k + q])]
    IN IF \A q \in 1..5 : Warm(w[q])
       THEN [j \in 1..Len(c) |-> IF j \in (k + 1)..(k + 5) THEN "EN" ELSE c[j]]
       ELSE IF \A q \in 1..5 : Cold(w[q])
       THEN [j \in 1..Len(c) |-> IF j \in (k + 1)..(k + 5) THEN "LN" ELSE c[j]]
       ELSE c
RECURSIVE ScanIn(_, _)
ScanIn(order, c) ==
    IF order = <<>> THEN c ELSE ScanIn(Tail(order), Visit(c, Head(order)))

\* Every order of the 5-wide windows of the series.
WindowCount == IF Len(oni_series) >= 5 THEN Len(oni_series) - 4 ELSE 0
Orders ==
    {p \in [1..WindowCount -> 0..(WindowCount - 1)] :
        \A a \in 1..WindowCount, b \in 1..WindowCount : p[a] = p[b] => a = b}

\* C27: during the scan a label that is 'EN' or 'LN' never changes again
\* (a label only goes from 'N' to 'EN' or to 'LN'); the returned list is
\* the one every order of visiting the windows gives, is as long as the
\* input, and is all 'N' for fewer than 5 values.
C27_LabelsSetOnce ==
    /\ [][\A j \in 1..Len(classification) :
            /\ classification'[j] \in {"N", "EN", "LN"}
            /\ classification[j] # "N" => classification'[j] = classification[j]]_vars
    /\ [](epc = "done" =>
            /\ Len(classification) = Len(oni_series)
            /\ Len(oni_series) < 5 => \A j \in 1..Len(classification) : classification[j] = "N"
            /\ \A order \in Orders :
                  ScanIn(order, [j \in 1..Len(oni_series) |-> "N"]) = classification)

C27_Witness ==
    /\ epc = "scan"
    /\ win = 2
    /\ Len(oni_series) = 7
    /\ \A j \in 1..6 : classification[j] = "LN"
    /\ classification[7] = "N"
    /\ oni_series[7] = 0 - 46

\* The count of missing values of a row over the important columns.
Missing(r) == Cardinality({c \in {"Tmax", "Pr"} : r[c] = NaN})
InputRows == {df[q] : q \in 1..Len(df)}

\* C23: the frame returned has exactly one row for each Date of the input;
\* every row of it is a row of the input, as it was, and no input row of the
\* same Date has fewer missing values.
C23_OneMostCompleteRowPerDate ==
    dpc = "done" =>
        /\ {returned[q].Date : q \in 1..Len(returned)} = {r.Date : r \in InputRows}
        /\ \A a \in 1..Len(returned), b \in 1..Len(returned) :
              returned[a].Date = returned[b].Date => a = b
        /\ \A q \in 1..Len(returned) :
              /\ returned[q] \in InputRows
              /\ \A r \in InputRows :
                    r.Date = returned[q].Date => Missing(returned[q]) <= Missing(r)

C23_Witness ==
    /\ dpc = "done"
    /\ Len(df) = 3
    /\ Len(returned) = 2
    /\ df[1].Date = df[2].Date
    /\ Missing(df[1]) > Missing(df[2])
    /\ returned[1] = df[2]
    /\ returned[2] = df[3]

\* A column of the returned row holds a value.
Present(c) == row[c] \notin {NaN, [kind |-> "nocol"]}
Within(c, lo, hi) == Present(c) => (row[c].v >= lo /\ row[c].v <= hi)

\* C24: in the row apply_quality_control returns every present value lies
\* within its thresholds; Tmax and Tmin, both present, have Tmax >= Tmin,
\* not (Tmax > 30 and Tmin < 0) and are not both 0; RHmax and RHmin, both
\* present, have RHmax >= RHmin and are not both 0; and ETo is present only
\* when the six weather variables are.  (Tenths of the unit.)
C24_RowsPassQualityControl ==
    qpc = "done" =>
        /\ Within("Tmax", 0 - 99, 509)
        /\ Within("Tmin", 0 - 209, 349)
        /\ Within("RHmax", 0, 1000)
        /\ Within("RHmin", 0, 1000)
        /\ Within("WSmean", 0, 499)
        /\ Within("SR", 0, 399)
        /\ Within("Pr", 0, 5970)
        /\ Within("ETo", 0, 150)
        /\ (Present("Tmax") /\ Present("Tmin")) =>
              /\ row.Tmax.v >= row.Tmin.v
              /\ ~(row.Tmax.v > 300 /\ row.Tmin.v < 0)
              /\ ~(row.Tmax.v = 0 /\ row.Tmin.v = 0)
        /\ (Present("RHmax") /\ Present("RHmin")) =>
              /\ row.RHmax.v >= row.RHmin.v
              /\ ~(row.RHmax.v = 0 /\ row.RHmin.v = 0)
        /\ Present("ETo") =>
              \A c \in {"Tmax", "Tmin", "RHmax", "RHmin", "WSmean", "SR"} : Present(c)

C24_Witness ==
    /\ qpc = "done"
    /\ row.Tmax = NaN
    /\ row.Tmin = NaN
    /\ row.RHmax = NaN
    /\ row.RHmin = NaN
    /\ row.WSmean = Num(50)
    /\ row.SR = Num(50)
    /\ row.Pr = NaN
    /\ row.ETo = NaN

\* The events of a (season, phase), and those of them in a category.
EventsOf(s, ph) ==
    {q \in 1..Len(results) : results[q].Season = s /\ results[q].ENSO_Phase = ph}
CategoryOf(x) ==
    IF x = NaN THEN "Near-Normal"
    ELSE IF x.v <= 0 - 10 THEN "Dry"
    ELSE IF x.v >= 10 THEN "Wet"
    ELSE "Near-Normal"
CountOf(s, ph, c) ==
    Cardinality({q \in EventsOf(s, ph) : CategoryOf(results[q].SPEI_3) = c})

\* The three probabilities of a (season, phase) are the counts over the
\* events and sum to 1, or are all 0 when there is no event.
CountsOverEvents(s, ph) ==
    LET pr == probabilities[<<s, ph>>]
        n == Cardinality(EventsOf(s, ph))
        d == pr["Dry"]
        m == pr["Near-Normal"]
        w == pr["Wet"]
    IN IF n > 0
       THEN /\ \A c \in {"Dry", "Near-Normal", "Wet"} :
                  pr[c].num * n = CountOf(s, ph, c) * pr[c].den
            /\ d.num * m.den * w.den + m.num * d.den * w.den + w.num * d.den * m.den
                  = d.den * m.den * w.den
       ELSE \A c \in {"Dry", "Near-Normal", "Wet"} : pr[c].num = 0 /\ pr[c].den # 0

\* C25 (as claimed): every season of the analysis and every phase has its
\* three probabilities: counts over events, all 0 without events.
C25_ProbabilitiesEverySeason ==
    anpc = "done" =>
        \A s \in {"SON", "DJF", "MAM"}, ph \in {"EN", "N", "LN"} :
            /\ <<s, ph>> \in DOMAIN probabilities
            /\ CountsOverEvents(s, ph)

\* C25 (amended): the table has the seasons that have at least one event;
\* for each of them and every phase the three probabilities are the counts
\* over the events of the (season, phase) and sum to 1, or are all 0 when the
\* (season, phase) has no event.
C25_ProbabilitiesSeasonsWithEvents ==
    anpc = "done" =>
        /\ DOMAIN probabilities =
              {results[q].Season : q \in 1..Len(results)} \X {"EN", "N", "LN"}
        /\ \A k \in DOMAIN probabilities : CountsOverEvents(k[1], k[2])

C25_Witness ==
    /\ anpc = "done"
    /\ Len(results) = 2
    /\ Cardinality(EventsOf("SON", "EN")) = 2
    /\ probabilities[<<"SON", "EN">>]["Dry"] = [kind |-> "frac", num |-> 1, den |-> 2]
    /\ probabilities[<<"SON", "EN">>]["Near-Normal"] = [kind |-> "frac", num |-> 1, den |-> 2]
    /\ results[2].SPEI_3 = NaN
    /\ probabilities[<<"SON", "LN">>]["Wet"].num = 0

=============================================================================
